---- MODULE Spec2Model ----
(***************************************************************************)
(* The versioned JSON store of jsonstorage (src/jsonstorage/ws.py, class   *)
(* JSONDatabase): one sqlite table storage(name, effdt, status, content)   *)
(* with a unique index on (name, effdt), and the operations put_item,      *)
(* get_item, get_list, get_list_hist and cleanup; the same operations made *)
(* by concurrent callers, each on a connection of its own; and the         *)
(* controllers JSONStorage and JSONStorageHistory that serve the store     *)
(* over HTTP.                                                              *)
(*                                                                         *)
(* Modelling decisions:                                                    *)
(*  - A datetime is a record [s, us]: whole seconds and microseconds.      *)
(*    datetime_todb keeps the seconds and drops the microseconds; the      *)
(*    stored text "YYYY-MM-DD HH:MM:SS" is modelled by the integer s, and  *)
(*    sqlite's text comparison of two such strings by integer comparison.  *)
(*    Datetimes are naive (no UTC offset), as utcnow() produces them.      *)
(*  - A name is the sequence of its byte codes, so that "order by name"    *)
(*    (sqlite BINARY collation) is real lexicographic byte order.          *)
(*  - A Python/JSON value is a record [type, val]; json.dumps and          *)
(*    json.loads are modelled by what they produce for these values.       *)
(*  - Time is scaled: the retention of one year is Retention seconds.      *)
(***************************************************************************)
EXTENDS Integers, Sequences, FiniteSets, TLC

VARIABLES
    storage,    \* the rows of table storage: a set of [name, effdt, status, content]
    now,        \* the system clock (UTC), in whole seconds
    last,       \* the call whose response the caller holds; Idle between calls
    conn,       \* per concurrent caller: its open connection and transaction
    jsonpatch   \* whether "import jsonpatch" succeeded when ws.py was loaded

vars == <<storage, now, last, conn, jsonpatch>>

\* what the sequential store operations leave alone
env == <<conn, jsonpatch>>

(***************************************************************************)
(* Bounds of the model.                                                    *)
(***************************************************************************)
MaxSec == 2
MaxRows == 3

\* datetime('now', '-1 years'): the retention period, in (scaled) seconds.
Retention == 1

\* Sub-second parts a datetime can carry.
Micros == {0, 500000}

\* Item names: "a" and "B", as byte codes.
Names == {<<97>>, <<66>>}

(***************************************************************************)
(* Python values.                                                          *)
(***************************************************************************)
None == [type |-> "NoneType", val |-> ""]
PyStr(t) == [type |-> "str", val |-> t]
PyInt(t) == [type |-> "int", val |-> t]

\* The values a caller stores: None (a soft delete), the empty string, 7.
Contents == {None, PyStr(""), PyInt("7")}

\* effdt: datetime.datetime = None
NoneDate == [s |-> -1, us |-> 0]
DateTimes == [s : 0..MaxSec, us : Micros]
DateArgs == DateTimes \cup {NoneDate}

\* json.dumps(content)
dumps(v) ==
    CASE v.type = "NoneType" -> "null"
      [] v.type = "str" -> "\"" \o v.val \o "\""
      [] v.type = "int" -> v.val

\* json.loads(text)
loads(t) ==
    IF t = "null" THEN None
    ELSE IF Len(t) >= 2 /\ \E v \in {"", "7"} : t = "\"" \o v \o "\""
         THEN PyStr(CHOOSE v \in {"", "7"} : t = "\"" \o v \o "\"")
         ELSE PyInt(t)

\* a conversion that rounds to the nearest second instead of truncating
datetime_todb_round(d) == IF d.us >= 500000 THEN d.s + 1 ELSE d.s

\* datetime_todb(d): d.isoformat(sep=" ", timespec="seconds"), truncating
datetime_todb(d) == d.s

\* datetime_fromdb(s): the datetime the stored text denotes
datetime_fromdb(e) == [s |-> e, us |-> 0]

\* datetime.datetime.utcnow(): the clock's second and some sub-second part
utcnow == {[s |-> now, us |-> u] : u \in Micros}

(***************************************************************************)
(* The table and its statements.                                           *)
(***************************************************************************)
\* an index that is unique on the name alone
idx_storage_name_only(rows, p, d) == \E r \in rows : r.name = p

\* a table without the unique index
idx_storage_none(rows, p, d) == FALSE

\* create unique index idx_storage on storage (name, effdt)
idx_storage(rows, p, d) == \E r \in rows : r.name = p /\ r.effdt = d

\* a put that takes every falsy content ("if not content") for a delete
put_row_falsy(content, id, d) ==
    IF content = None \/ content = PyStr("")
    THEN [name |-> id, effdt |-> d, status |-> "I", content |-> ""]
    ELSE [name |-> id, effdt |-> d, status |-> "A", content |-> dumps(content)]

\* the row put_item hands to sql_insert_item
put_row(content, id, d) ==
    IF content = None
    THEN [name |-> id, effdt |-> d, status |-> "I", content |-> ""]
    ELSE [name |-> id, effdt |-> d, status |-> "A", content |-> dumps(content)]

\* insert into storage values(:p, :d, :s, :c)
sql_insert_item(rows, row) == rows \cup {row}

\* a select of the newest row of the name, whatever the date asked for
sql_get_item_newest(rows, p, d) ==
    {s \in rows :
        /\ s.name = p
        /\ ~ \E r \in rows : r.name = s.name /\ r.effdt > s.effdt
        /\ s.status = "A"}

\* a select whose "not exists" clause looks at Active rows only
sql_get_item_skip_inactive(rows, p, d) ==
    {s \in rows :
        /\ s.name = p
        /\ s.effdt <= d
        /\ ~ \E r \in rows : /\ r.name = s.name /\ r.effdt > s.effdt
                              /\ r.effdt <= d /\ r.status = "A"
        /\ s.status = "A"}

\* the select without its "not exists" clause
sql_get_item_any_active(rows, p, d) ==
    {s \in rows : s.name = p /\ s.effdt <= d /\ s.status = "A"}

\* select s.content from storage s where s.name = :p and effdt <= :d and not
\* exists (select 1 from storage where name = s.name and effdt > s.effdt and
\* effdt <= :d) and s.status = 'A'
sql_get_item(rows, p, d) ==
    {s \in rows :
        /\ s.name = p
        /\ s.effdt <= d
        /\ ~ \E r \in rows : r.name = s.name /\ r.effdt > s.effdt /\ r.effdt <= d
        /\ s.status = "A"}

\* what get_item(id, e) may return: cur.fetchone() takes one of the selected
\* rows (None when there is none) and json.loads decodes its content
fetch_item(rows, id, e) ==
    LET sel == sql_get_item(rows, id, datetime_todb(e))
    IN  IF sel = {} THEN {None} ELSE {loads(row.content) : row \in sel}

\* a cleanup of the Inactive rows only
old_stuff_inactive_only(rows, clock) ==
    {<<s.name, s.effdt>> : s \in {s \in rows :
        s.effdt < clock - Retention /\ s.status = "I"}}

\* a cleanup by age alone
old_stuff_any_old(rows, clock) ==
    {<<s.name, s.effdt>> : s \in {s \in rows : s.effdt < clock - Retention}}

\* a horizon that takes in the rows exactly one year old
old_stuff_inclusive(rows, clock) ==
    {<<s.name, s.effdt>> : s \in
        {s \in rows :
            /\ s.effdt <= clock - Retention
            /\ \/ s.status = "I"
               \/ \E r \in rows : r.name = s.name /\ r.effdt > s.effdt}}

\* with old_stuff as (select s.name, s.effdt from storage s where s.effdt <
\* datetime('now', '-1 years') and (s.status = 'I' or exists (select 1 from
\* storage where name = s.name and effdt > s.effdt)))
old_stuff(rows, clock) ==
    {<<s.name, s.effdt>> : s \in
        {s \in rows :
            /\ s.effdt < clock - Retention
            /\ \/ s.status = "I"
               \/ \E r \in rows : r.name = s.name /\ r.effdt > s.effdt}}

\* a cleanup that deletes one of the old rows per run ("limit 1")
sql_cleanup_one(rows, clock) ==
    IF old_stuff(rows, clock) = {} THEN rows
    ELSE LET o == CHOOSE o \in old_stuff(rows, clock) : TRUE
         IN  {r \in rows : ~ (o[1] = r.name /\ o[2] = r.effdt)}

\* a cleanup that marks the old rows inactive instead of deleting them
sql_cleanup_mark(rows, clock) ==
    {IF \E o \in old_stuff(rows, clock) : o[1] = r.name /\ o[2] = r.effdt
     THEN [r EXCEPT !.status = "I", !.content = ""]
     ELSE r : r \in rows}

\* delete from storage where exists (select 1 from old_stuff where name =
\* storage.name and effdt = storage.effdt)
sql_cleanup(rows, clock) ==
    {r \in rows : ~ \E o \in old_stuff(rows, clock) : o[1] = r.name /\ o[2] = r.effdt}

(***************************************************************************)
(* Name filters and ordering.                                              *)
(***************************************************************************)
\* like / glob: str = None
NonePattern == <<0>>

\* sqlite folds ASCII upper case to lower case for LIKE
Fold(c) == IF c >= 65 /\ c <= 90 THEN c + 32 ELSE c

\* s.name like :l  ('%' is 37: any run of characters; '_' is 95: one character)
RECURSIVE LikeMatch(_, _)
LikeMatch(pat, str) ==
    IF pat = <<>> THEN str = <<>>
    ELSE IF Head(pat) = 37
         THEN \/ LikeMatch(Tail(pat), str)
              \/ str # <<>> /\ LikeMatch(pat, Tail(str))
         ELSE /\ str # <<>>
              /\ Head(pat) = 95 \/ Fold(Head(pat)) = Fold(Head(str))
              /\ LikeMatch(Tail(pat), Tail(str))

\* s.name glob :g  ('*' is 42: any run of characters; '?' is 63: one character;
\* the patterns of the model hold no [...] class)
RECURSIVE GlobMatch(_, _)
GlobMatch(pat, str) ==
    IF pat = <<>> THEN str = <<>>
    ELSE IF Head(pat) = 42
         THEN \/ GlobMatch(Tail(pat), str)
              \/ str # <<>> /\ GlobMatch(pat, Tail(str))
         ELSE /\ str # <<>>
              /\ Head(pat) = 63 \/ Head(pat) = Head(str)
              /\ GlobMatch(Tail(pat), Tail(str))

\* the criteria get_list and get_list_hist build: "and s.name like :l and
\* s.name glob :g", each only when its argument is not None
criteria(name, like, glob) ==
    /\ like = NonePattern \/ LikeMatch(like, name)
    /\ glob = NonePattern \/ GlobMatch(glob, name)

\* The filters callers pass: none, like 'b%' and glob 'a*'.
LikePatterns == {NonePattern, <<98, 37>>}
GlobPatterns == {NonePattern, <<97, 42>>}

\* comparison of two names under sqlite's BINARY collation
RECURSIVE NameLess(_, _)
NameLess(a, b) ==
    IF a = <<>> THEN b # <<>>
    ELSE IF b = <<>> THEN FALSE
    ELSE IF Head(a) # Head(b) THEN Head(a) < Head(b)
    ELSE NameLess(Tail(a), Tail(b))

\* order by s.name (rows of equal name come in an order sqlite picks)
RECURSIVE order_by_name(_)
order_by_name(rows) ==
    IF rows = {} THEN <<>>
    ELSE LET m == CHOOSE x \in rows : \A y \in rows : ~ NameLess(y.name, x.name)
         IN  <<m>> \o order_by_name(rows \ {m})

\* order by s.name, s.effdt
RECURSIVE order_by_name_effdt(_)
order_by_name_effdt(rows) ==
    IF rows = {} THEN <<>>
    ELSE LET m == CHOOSE x \in rows : \A y \in rows :
                    /\ ~ NameLess(y.name, x.name)
                    /\ y.name = x.name => y.effdt >= x.effdt
         IN  <<m>> \o order_by_name_effdt(rows \ {m})

\* a list that resolves every item at its newest version, future-dated or not
sql_get_list_newest(rows, d, like, glob) ==
    LET sel == order_by_name(
                {s \in rows :
                    /\ ~ \E r \in rows : r.name = s.name /\ r.effdt > s.effdt
                    /\ s.status = "A"
                    /\ criteria(s.name, like, glob)})
    IN  [i \in 1..Len(sel) |-> sel[i].name]

\* select s.name from storage s where effdt <= :d and not exists (select 1
\* from storage where name = s.name and effdt > s.effdt and effdt <= :d) and
\* s.status = 'A' {crit} order by s.name;  [row["name"] for row in fetchall()]
sql_get_list(rows, d, like, glob) ==
    LET sel == order_by_name(
                {s \in rows :
                    /\ s.effdt <= d
                    /\ ~ \E r \in rows :
                            r.name = s.name /\ r.effdt > s.effdt /\ r.effdt <= d
                    /\ s.status = "A"
                    /\ criteria(s.name, like, glob)})
    IN  [i \in 1..Len(sel) |-> sel[i].name]

\* a history that lists the Active versions only
sql_get_list_hist_active(rows, like, glob) ==
    LET sel == order_by_name_effdt(
                {s \in rows : s.status = "A" /\ criteria(s.name, like, glob)})
    IN  [i \in 1..Len(sel) |->
            [name |-> sel[i].name,
             effdt |-> datetime_fromdb(sel[i].effdt),
             status |-> sel[i].status]]

\* select s.name, s.effdt, s.status from storage s where 1=1 {crit} order by
\* s.name, s.effdt;  the list of {"name", "effdt", "status"} built from it
sql_get_list_hist(rows, like, glob) ==
    LET sel == order_by_name_effdt({s \in rows : criteria(s.name, like, glob)})
    IN  [i \in 1..Len(sel) |->
            [name |-> sel[i].name,
             effdt |-> datetime_fromdb(sel[i].effdt),
             status |-> sel[i].status]]

(***************************************************************************)
(* The state machine.  The caller makes one call at a time: a call takes   *)
(* its arguments and leaves its response in last; Return hands the         *)
(* response over and makes room for the next call.  The clock advances     *)
(* between calls.                                                          *)
(***************************************************************************)
\* jsonpatch documents (RFC 6902) addressed to the whole item: replace it
\* by a value, or test that it equals a value
NoPatch == [op |-> "none", value |-> None]
Patches ==
    {[op |-> "replace", value |-> v] : v \in {None, PyInt("7")}}
        \cup {[op |-> "test", value |-> PyInt("7")]}

\* last.gone is a ghost: the rows the call deleted (nothing returns them).
\* For a request to a controller: ctl is the controller, effdt the
\* timestamp the caller supplied (NoneDate when it supplied none), content
\* the request body, patch the patch document, status the HTTP status,
\* raised the exception that ended the handler, body the response body, at
\* the timestamp handed to get_item and wrote_at the one handed to put_item.
\* Ghosts: called is the clock when the request arrived, pre the rows it
\* found, calls the JSONDatabase methods the handler called, in order.
Idle ==
    [op |-> "idle", id |-> <<>>, at |-> NoneDate, content |-> None,
     like |-> NonePattern, glob |-> NonePattern, result |-> None, gone |-> {},
     ctl |-> "", effdt |-> NoneDate, patch |-> NoPatch, status |-> 0,
     raised |-> "", body |-> None, wrote_at |-> NoneDate, called |-> 0,
     pre |-> {}, calls |-> <<>>]

\* the concurrent callers, and a caller with no connection open
Callers == {1, 2}

Closed ==
    [pc |-> "closed", op |-> "idle", id |-> <<>>, at |-> NoneDate, content |-> None,
     pre |-> {}, ins |-> {}, dels |-> {}, result |-> "", item |-> None]

Init ==
    /\ storage = {}
    /\ now = 0
    /\ last = Idle
    /\ conn = [p \in Callers |-> Closed]
    /\ jsonpatch = TRUE

\* the clock advances (between calls; a response in hand does not change
\* with it)
Tick ==
    /\ last = Idle
    /\ now < MaxSec
    /\ now' = now + 1
    /\ UNCHANGED <<storage, last, env>>

\* the caller takes the response
Return ==
    /\ last # Idle
    /\ last' = Idle
    /\ UNCHANGED <<storage, now, env>>

\* JSONDatabase.put_item(content, id, effdt): the insert either raises
\* sqlite3.IntegrityError (nothing is committed) or is committed
put_item(content, id, effdt) ==
    /\ last = Idle
    /\ \E e \in (IF effdt = NoneDate THEN utcnow ELSE {effdt}) :
        LET d == datetime_todb(e)
            call == [Idle EXCEPT !.op = "put_item", !.id = id, !.at = e,
                                 !.content = content]
        IN  IF idx_storage(storage, id, d)
            THEN /\ last' = [call EXCEPT !.result = "IntegrityError"]
                 /\ UNCHANGED <<storage, now>>
            ELSE /\ Cardinality(storage) < MaxRows
                 /\ storage' = sql_insert_item(storage, put_row(content, id, d))
                 /\ last' = [call EXCEPT !.result = "ok"]
                 /\ UNCHANGED now
    /\ UNCHANGED env

\* JSONDatabase.get_item(id, effdt)
get_item(id, effdt) ==
    /\ last = Idle
    /\ \E e \in (IF effdt = NoneDate THEN utcnow ELSE {effdt}) :
        /\ \E item \in fetch_item(storage, id, e) :
                last' = [Idle EXCEPT !.op = "get_item", !.id = id, !.at = e,
                                     !.result = item]
        /\ UNCHANGED <<storage, now, env>>

\* JSONDatabase.get_list(like, glob)
get_list(like, glob) ==
    /\ last = Idle
    /\ \E e \in utcnow :
        /\ last' = [Idle EXCEPT !.op = "get_list", !.at = e,
                        !.like = like, !.glob = glob,
                        !.result = sql_get_list(storage, datetime_todb(e), like, glob)]
        /\ UNCHANGED <<storage, now, env>>

\* JSONDatabase.get_list_hist(like, glob)
get_list_hist(like, glob) ==
    /\ last = Idle
    /\ last' = [Idle EXCEPT !.op = "get_list_hist", !.like = like, !.glob = glob,
                    !.result = sql_get_list_hist(storage, like, glob)]
    /\ UNCHANGED <<storage, now, env>>

\* JSONDatabase.cleanup(): sqlite evaluates datetime('now') on the same clock
cleanup ==
    /\ last = Idle
    /\ storage' = sql_cleanup(storage, now)
    /\ last' = [Idle EXCEPT !.op = "cleanup", !.at = [s |-> now, us |-> 0],
                    !.gone = storage \ sql_cleanup(storage, now)]
    /\ UNCHANGED <<now, env>>

Next ==
    \/ Tick
    \/ Return
    \/ \E content \in Contents, id \in Names, effdt \in DateArgs :
            put_item(content, id, effdt)
    \/ \E id \in Names, effdt \in DateArgs : get_item(id, effdt)
    \/ \E like \in LikePatterns, glob \in GlobPatterns : get_list(like, glob)
    \/ \E like \in LikePatterns, glob \in GlobPatterns : get_list_hist(like, glob)
    \/ cleanup

Spec == Init /\ [][Next]_vars

\* The same store with callers that also date versions past the end of the
\* clock's range, so that a version is still in the future when the clock
\* has reached its last second.
FutureArgs == [s : 0..(MaxSec + 1), us : Micros] \cup {NoneDate}

NextFuture ==
    \/ Tick
    \/ Return
    \/ \E content \in Contents, id \in Names, effdt \in FutureArgs :
            put_item(content, id, effdt)
    \/ \E id \in Names, effdt \in FutureArgs : get_item(id, effdt)
    \/ \E like \in LikePatterns, glob \in GlobPatterns : get_list(like, glob)
    \/ \E like \in LikePatterns, glob \in GlobPatterns : get_list_hist(like, glob)
    \/ cleanup

SpecFuture == Init /\ [][NextFuture]_vars

\* The same store watched for one second longer than its callers date
\* versions, so that two versions of an item can both be past the horizon.
Elapse ==
    /\ last = Idle
    /\ now <= MaxSec
    /\ now' = now + 1
    /\ UNCHANGED <<storage, last, env>>

NextLate ==
    \/ Elapse
    \/ Return
    \/ \E content \in Contents, id \in Names, effdt \in DateTimes :
            put_item(content, id, effdt)
    \/ \E id \in Names, effdt \in DateTimes : get_item(id, effdt)
    \/ get_list_hist(NonePattern, NonePattern)
    \/ cleanup

SpecLate == Init /\ [][NextLate]_vars

(***************************************************************************)
(* Concurrent callers.  Every JSONDatabase operation opens a connection of *)
(* its own (_db_connect), executes one statement, and leaves the with      *)
(* block: commit when the body raised nothing, close (which rolls back)    *)
(* when it did.  sqlite gives a database one writer at a time: a statement *)
(* that writes waits while another connection holds the write lock, which  *)
(* a connection keeps from its write until it commits or closes.  The wait *)
(* is sqlite3.connect's default timeout; a statement or a commit that      *)
(* gives up raises sqlite3.OperationalError.  Readers see committed rows.  *)
(* The database file outlives the process: a round of concurrent calls     *)
(* starts from rows that earlier sessions have put.                        *)
(***************************************************************************)
WholeSeconds == {d \in DateTimes : d.us = 0}

ConcCalls ==
    [op : {"put_item"}, id : Names, at : WholeSeconds, content : Contents]
      \cup [op : {"get_item"}, id : Names, at : WholeSeconds, content : {None}]
      \cup {[op |-> "cleanup", id |-> <<>>, at |-> NoneDate, content |-> None]}

\* databases that earlier puts, dated seconds 0 and 1, have left in the file
SeedStores ==
    {S \in SUBSET {put_row(c, n, d) : c \in Contents, n \in Names, d \in {0, 1}} :
        /\ Cardinality(S) <= 2
        /\ \A v, w \in S : (v.name = w.name /\ v.effdt = w.effdt) => v = w}

InitConc ==
    /\ storage \in SeedStores
    /\ now = MaxSec
    /\ last = Idle
    /\ conn = [p \in Callers |-> Closed]
    /\ jsonpatch = TRUE

\* a database without the write lock
busy_never(c, p) == FALSE

\* another connection holds the write lock
busy(c, p) == \E q \in Callers \ {p} : c[q].pc \in {"executed", "raised"}

\* a commit that applies the first of the pending deletions
txn_commit_partial(rows, t) ==
    IF t.dels = {} THEN rows \cup t.ins
    ELSE (rows \ {CHOOSE r \in t.dels : TRUE}) \cup t.ins

\* conn.commit(): the transaction's changes become the database's rows
txn_commit(rows, t) == (rows \ t.dels) \cup t.ins

\* a close that commits what is pending
txn_rollback_commit(rows, t) == (rows \ t.dels) \cup t.ins

\* conn.close() without a commit: the transaction's changes are dropped
txn_rollback(rows, t) == rows

\* sqlite3.connect at the start of an operation
Connect(p, call) ==
    /\ conn[p].pc = "closed"
    /\ conn' = [conn EXCEPT ![p] =
                    [Closed EXCEPT !.pc = "open", !.op = call.op, !.id = call.id,
                                   !.at = call.at, !.content = call.content,
                                   !.pre = storage]]
    /\ UNCHANGED <<storage, now, last, jsonpatch>>

\* conn.execute of the operation's statement.  The select of get_item
\* changes nothing, so its commit and close are folded into the step.  The
\* insert opens a transaction; the "with ... delete" of cleanup is committed
\* by sqlite at once or with the connection's commit, depending on whether
\* the sqlite3 module opened a transaction for it.
Execute(p) ==
    LET t == conn[p]
        d == datetime_todb(t.at)
    IN  /\ t.pc = "open"
        /\ \/ /\ t.op = "get_item"
              /\ \E item \in fetch_item(storage, t.id, t.at) :
                    conn' = [conn EXCEPT ![p] =
                                [t EXCEPT !.pc = "done", !.result = "ok", !.item = item]]
              /\ UNCHANGED storage
           \/ /\ t.op = "put_item"
              /\ ~ busy(conn, p)
              /\ IF idx_storage(storage, t.id, d)
                 THEN conn' = [conn EXCEPT ![p] = [t EXCEPT !.pc = "raised"]]
                 ELSE /\ Cardinality(storage) < MaxRows
                      /\ conn' = [conn EXCEPT ![p] =
                                    [t EXCEPT !.pc = "executed",
                                              !.ins = {put_row(t.content, t.id, d)}]]
              /\ UNCHANGED storage
           \/ /\ t.op = "cleanup"
              /\ ~ busy(conn, p)
              /\ LET u == [t EXCEPT !.dels = storage \ sql_cleanup(storage, now)]
                 IN  \/ /\ conn' = [conn EXCEPT ![p] = [u EXCEPT !.pc = "executed"]]
                        /\ UNCHANGED storage
                     \/ /\ conn' = [conn EXCEPT ![p] =
                                        [u EXCEPT !.pc = "done", !.result = "ok"]]
                        /\ storage' = txn_commit(storage, u)
        /\ UNCHANGED <<now, last, jsonpatch>>

\* the with block ends without an exception: conn.commit(), conn.close()
Commit(p) ==
    /\ conn[p].pc = "executed"
    /\ storage' = txn_commit(storage, conn[p])
    /\ conn' = [conn EXCEPT ![p] = [@ EXCEPT !.pc = "done", !.result = "ok"]]
    /\ UNCHANGED <<now, last, jsonpatch>>

\* the insert raised sqlite3.IntegrityError: conn.close() without a commit
Rollback(p) ==
    /\ conn[p].pc = "raised"
    /\ storage' = txn_rollback(storage, conn[p])
    /\ conn' = [conn EXCEPT ![p] = [@ EXCEPT !.pc = "done", !.result = "IntegrityError"]]
    /\ UNCHANGED <<now, last, jsonpatch>>

\* the statement or the commit raised sqlite3.OperationalError (lock wait
\* timed out, disk error): conn.close() without a commit
Abort(p) ==
    /\ conn[p].pc \in {"open", "executed"}
    /\ storage' = txn_rollback(storage, conn[p])
    /\ conn' = [conn EXCEPT ![p] = [@ EXCEPT !.pc = "done", !.result = "OperationalError"]]
    /\ UNCHANGED <<now, last, jsonpatch>>

NextConc ==
    \/ \E p \in Callers, call \in ConcCalls : Connect(p, call)
    \/ \E p \in Callers : Execute(p)
    \/ \E p \in Callers : Commit(p)
    \/ \E p \in Callers : Rollback(p)
    \/ \E p \in Callers : Abort(p)

SpecConc == InitConc /\ [][NextConc]_vars

(***************************************************************************)
(* The controllers JSONStorage (/storage) and JSONStorageHistory           *)
(* (/history).  A handler is an "async def" without an await: it runs to   *)
(* its end before the next request is handled.  Each JSONDatabase call of  *)
(* a handler reads the clock for itself, so the clock may advance between  *)
(* the get_item and the put_item of one /storage request.  An exception    *)
(* that is no HTTPException becomes the response 500.                      *)
(***************************************************************************)
\* a <= b and a < b on datetimes
DtLeq(a, b) == a.s < b.s \/ (a.s = b.s /\ a.us <= b.us)
DtLess(a, b) == ~ DtLeq(b, a)

\* the rows the store takes from requests, and the timestamps they supply
WebRows == MaxRows - 1
WebDates == {d \in DateTimes : d.us = 0} \cup {NoneDate}

\* datetime.datetime.utcnow() at second n
clock_at(n) == {[s |-> n, us |-> u] : u \in Micros}

\* the clock readings a later call of the same handler can get
later == {n \in {now, now + 1} : n <= MaxSec}

\* Parameter(default=datetime.datetime.utcnow()): evaluated once, when the
\* class body of JSONStorageHistory runs, which is when the clock starts
\* (Init); datetime_todb drops its sub-second part.
effdt_default == [s |-> 0, us |-> 0]

\* the timestamp a /history handler gets for its parameter effdt
history_effdt(effdt) == IF effdt = NoneDate THEN effdt_default ELSE effdt

\* uuid.uuid1(): a name no caller has used
uuid1(rows) == {n \in Names : \A r \in rows : r.name # n}

\* a patch that changes nothing
apply_patch_noop(item, patch) == [ok |-> TRUE, value |-> item]

\* jsonpatch.apply_patch(item, data): the new document, or JsonPatchException
apply_patch(item, patch) ==
    CASE patch.op = "replace" -> [ok |-> TRUE, value |-> patch.value]
      [] patch.op = "test" -> [ok |-> item = patch.value, value |-> item]
      [] OTHER -> [ok |-> TRUE, value |-> item]

\* a handler that puts the item it read
item_new_unpatched(item, data) == item

\* item_new = jsonpatch.apply_patch(item, data), when it raised nothing
item_new(item, data) == apply_patch(item, data).value

\* "if not item"
not_found_falsy(item) == item = None \/ item = PyStr("")

\* "if item is None"
not_found(item) == item = None

\* the request as a handler receives it
Request(ctl, op, id, effdt, data, patch) ==
    [Idle EXCEPT !.ctl = ctl, !.op = op, !.id = id, !.effdt = effdt,
                 !.content = data, !.patch = patch, !.pre = storage,
                 !.called = now]

\* raise NotFoundException / NotImplementedException / any other exception
Raise(req, status, exception) ==
    /\ last' = [req EXCEPT !.status = status, !.raised = exception]
    /\ UNCHANGED storage

\* self._db.put_item(content, id, e), then the handler's return
PutAndReturn(req, content, id, e, status, body) ==
    LET r == [req EXCEPT !.calls = Append(@, "put_item"), !.wrote_at = e]
    IN  IF idx_storage(storage, id, datetime_todb(e))
        THEN Raise(r, 500, "IntegrityError")
        ELSE /\ Cardinality(storage) < WebRows
             /\ storage' = sql_insert_item(storage, put_row(content, id, datetime_todb(e)))
             /\ last' = [r EXCEPT !.status = status, !.body = body]

\* the handler's self._db.get_item(id, e)
GetItem(req, e) == [req EXCEPT !.calls = Append(@, "get_item"), !.at = e]

\* JSONStorage.get_list(like, glob)
Storage_get_list(like, glob) ==
    /\ last = Idle
    /\ \E e \in utcnow :
        last' = [Request("storage", "get_list", <<>>, NoneDate, None, NoPatch)
                    EXCEPT !.like = like, !.glob = glob, !.at = e,
                           !.calls = <<"get_list">>, !.status = 200,
                           !.body = sql_get_list(storage, datetime_todb(e),
                                                 NonePattern, NonePattern)]
    /\ UNCHANGED <<storage, now, env>>

\* JSONStorage.post_json(data, prefix), prefix left at its default ""
Storage_post_json(data) ==
    /\ last = Idle
    /\ \E id \in uuid1(storage), e \in utcnow :
        PutAndReturn(Request("storage", "post_json", id, NoneDate, data, NoPatch),
                     data, id, e, 201, data)
    /\ UNCHANGED <<now, env>>

\* JSONStorage.get_json(id)
Storage_get_json(id) ==
    /\ last = Idle
    /\ \E e \in utcnow : \E item \in fetch_item(storage, id, e) :
        LET req == GetItem(Request("storage", "get_json", id, NoneDate, None, NoPatch), e)
        IN  IF not_found(item)
            THEN Raise(req, 404, "NotFoundException")
            ELSE /\ last' = [req EXCEPT !.status = 200, !.body = item]
                 /\ UNCHANGED storage
    /\ UNCHANGED <<now, env>>

\* JSONStorage.put_json(id, data)
Storage_put_json(id, data) ==
    /\ last = Idle
    /\ \E e \in utcnow :
        PutAndReturn(Request("storage", "put_json", id, NoneDate, data, NoPatch),
                     data, id, e, 200, data)
    /\ UNCHANGED <<now, env>>

\* JSONStorage.patch_json(id, data)
Storage_patch_json(id, data) ==
    /\ last = Idle
    /\ LET req == Request("storage", "patch_json", id, NoneDate, None, data)
       IN  IF ~ jsonpatch
           THEN Raise(req, 501, "NotImplementedException") /\ UNCHANGED now
           ELSE \E e1 \in utcnow : \E item \in fetch_item(storage, id, e1) :
                 IF not_found(item)
                 THEN Raise(GetItem(req, e1), 404, "NotFoundException") /\ UNCHANGED now
                 ELSE IF ~ apply_patch(item, data).ok
                 THEN Raise(GetItem(req, e1), 500, "JsonPatchException") /\ UNCHANGED now
                 ELSE \E n2 \in later : \E e2 \in clock_at(n2) :
                        /\ DtLeq(e1, e2)
                        /\ now' = n2
                        /\ PutAndReturn(GetItem(req, e1), item_new(item, data),
                                        id, e2, 200, item_new(item, data))
    /\ UNCHANGED env

\* JSONStorage.delete_json(id)
Storage_delete_json(id) ==
    /\ last = Idle
    /\ \E e1 \in utcnow : \E item \in fetch_item(storage, id, e1) :
        LET req == GetItem(Request("storage", "delete_json", id, NoneDate, None, NoPatch), e1)
        IN  IF not_found(item)
            THEN Raise(req, 404, "NotFoundException") /\ UNCHANGED now
            ELSE \E n2 \in later : \E e2 \in clock_at(n2) :
                    /\ DtLeq(e1, e2)
                    /\ now' = n2
                    /\ PutAndReturn(req, None, id, e2, 204, None)
    /\ UNCHANGED env

\* JSONStorage.cleanup()
Storage_cleanup ==
    /\ last = Idle
    /\ storage' = sql_cleanup(storage, now)
    /\ last' = [Request("storage", "cleanup", <<>>, NoneDate, None, NoPatch)
                    EXCEPT !.at = [s |-> now, us |-> 0], !.calls = <<"cleanup">>,
                           !.status = 204,
                           !.gone = storage \ sql_cleanup(storage, now)]
    /\ UNCHANGED <<now, env>>

\* JSONStorageHistory.get_list(like, glob)
History_get_list(like, glob) ==
    /\ last = Idle
    /\ last' = [Request("history", "get_list", <<>>, NoneDate, None, NoPatch)
                    EXCEPT !.like = like, !.glob = glob,
                           !.calls = <<"get_list_hist">>, !.status = 200,
                           !.body = sql_get_list_hist(storage, NonePattern, NonePattern)]
    /\ UNCHANGED <<storage, now, env>>

\* JSONStorageHistory.post_json(data, prefix, effdt), prefix left at ""
History_post_json(data, effdt) ==
    /\ last = Idle
    /\ \E id \in uuid1(storage) :
        PutAndReturn(Request("history", "post_json", id, effdt, data, NoPatch),
                     data, id, history_effdt(effdt), 201, data)
    /\ UNCHANGED <<now, env>>

\* JSONStorageHistory.get_json(id, effdt)
History_get_json(id, effdt) ==
    /\ last = Idle
    /\ \E item \in fetch_item(storage, id, history_effdt(effdt)) :
        LET req == GetItem(Request("history", "get_json", id, effdt, None, NoPatch),
                           history_effdt(effdt))
        IN  IF not_found(item)
            THEN Raise(req, 404, "NotFoundException")
            ELSE /\ last' = [req EXCEPT !.status = 200, !.body = item]
                 /\ UNCHANGED storage
    /\ UNCHANGED <<now, env>>

\* JSONStorageHistory.put_json(id, data, effdt)
History_put_json(id, data, effdt) ==
    /\ last = Idle
    /\ PutAndReturn(Request("history", "put_json", id, effdt, data, NoPatch),
                    data, id, history_effdt(effdt), 200, data)
    /\ UNCHANGED <<now, env>>

\* JSONStorageHistory.patch_json(id, data, effdt)
History_patch_json(id, data, effdt) ==
    /\ last = Idle
    /\ LET req == Request("history", "patch_json", id, effdt, None, data)
           e == history_effdt(effdt)
       IN  IF ~ jsonpatch
           THEN Raise(req, 501, "NotImplementedException")
           ELSE \E item \in fetch_item(storage, id, e) :
                 IF not_found(item)
                 THEN Raise(GetItem(req, e), 404, "NotFoundException")
                 ELSE IF ~ apply_patch(item, data).ok
                 THEN Raise(GetItem(req, e), 500, "JsonPatchException")
                 ELSE PutAndReturn(GetItem(req, e), item_new(item, data),
                                   id, e, 200, item_new(item, data))
    /\ UNCHANGED <<now, env>>

\* JSONStorageHistory.delete_json(id, effdt)
History_delete_json(id, effdt) ==
    /\ last = Idle
    /\ \E item \in fetch_item(storage, id, history_effdt(effdt)) :
        LET req == GetItem(Request("history", "delete_json", id, effdt, None, NoPatch),
                           history_effdt(effdt))
        IN  IF not_found(item)
            THEN Raise(req, 404, "NotFoundException")
            ELSE PutAndReturn(req, None, id, history_effdt(effdt), 204, None)
    /\ UNCHANGED <<now, env>>

\* JSONStorageHistory.cleanup()
History_cleanup ==
    /\ last = Idle
    /\ storage' = sql_cleanup(storage, now)
    /\ last' = [Request("history", "cleanup", <<>>, NoneDate, None, NoPatch)
                    EXCEPT !.at = [s |-> now, us |-> 0], !.calls = <<"cleanup">>,
                           !.status = 204,
                           !.gone = storage \ sql_cleanup(storage, now)]
    /\ UNCHANGED <<now, env>>

\* the module is loaded with or without the optional jsonpatch
InitWeb ==
    /\ storage = {}
    /\ now = 0
    /\ last = Idle
    /\ conn = [p \in Callers |-> Closed]
    /\ jsonpatch \in BOOLEAN

NextWeb ==
    \/ Tick
    \/ Return
    \/ \E like \in LikePatterns, glob \in GlobPatterns : Storage_get_list(like, glob)
    \/ \E data \in Contents : Storage_post_json(data)
    \/ \E id \in Names : Storage_get_json(id)
    \/ \E id \in Names, data \in Contents : Storage_put_json(id, data)
    \/ \E id \in Names, data \in Patches : Storage_patch_json(id, data)
    \/ \E id \in Names : Storage_delete_json(id)
    \/ Storage_cleanup
    \/ \E like \in LikePatterns, glob \in GlobPatterns : History_get_list(like, glob)
    \/ \E data \in Contents, effdt \in WebDates : History_post_json(data, effdt)
    \/ \E id \in Names, effdt \in WebDates : History_get_json(id, effdt)
    \/ \E id \in Names, data \in Contents, effdt \in WebDates :
            History_put_json(id, data, effdt)
    \/ \E id \in Names, data \in Patches, effdt \in WebDates :
            History_patch_json(id, data, effdt)
    \/ \E id \in Names, effdt \in WebDates : History_delete_json(id, effdt)
    \/ History_cleanup

SpecWeb == InitWeb /\ [][NextWeb]_vars

(***************************************************************************)
(* Requests in flight together.  uvicorn.run serves the application in one *)
(* process with one event loop (src/app.py); the framework awaits while it *)
(* receives a request, and then calls the handler, a coroutine that runs   *)
(* until it awaits or returns.  conn holds, per client, its request: its   *)
(* position (received, read: between the handler's get_item and put_item,  *)
(* done), the item read, and the rows before the handler's write (ghost).  *)
(***************************************************************************)
NoRequest ==
    [pc |-> "none", ctl |-> "", op |-> "idle", id |-> <<>>, effdt |-> NoneDate,
     content |-> None, patch |-> NoPatch, at |-> NoneDate, item |-> None,
     wrote_at |-> NoneDate, before |-> {}, status |-> 0, raised |-> ""]

\* the patch, put and delete requests of both controllers
LoopRequests ==
    LET stamps(ctl) == IF ctl = "storage" THEN {NoneDate} ELSE WebDates \ {NoneDate}
    IN  UNION {
            [ctl : {ctl}, op : {"patch_json"}, id : Names, effdt : stamps(ctl),
             content : {None}, patch : Patches]
            \cup [ctl : {ctl}, op : {"put_json"}, id : Names, effdt : stamps(ctl),
                  content : Contents, patch : {NoPatch}]
            \cup [ctl : {ctl}, op : {"delete_json"}, id : Names, effdt : stamps(ctl),
                  content : {None}, patch : {NoPatch}]
            : ctl \in {"storage", "history"}}

\* the database holds one version of an item, or none
InitLoop ==
    /\ storage \in {S \in SeedStores :
                        Cardinality(S) <= 1 /\ \A v \in S : v.effdt = 0}
    /\ now = MaxSec - 1
    /\ last = Idle
    /\ conn = [p \in Callers |-> NoRequest]
    /\ jsonpatch = TRUE

\* a handler that awaits between its get_item and its put_item
awaits_between(op) == TRUE

\* the handlers are "async def" without an await in their bodies
awaits(op) == FALSE

\* another request's handler is running: the event loop starts no handler
running(c, p) ==
    \E q \in Callers \ {p} : c[q].pc = "read" /\ ~ awaits(c[q].op)

\* the timestamps a handler's store call can get
stamp(t) == IF t.ctl = "storage" THEN utcnow ELSE {t.effdt}

\* the request has arrived
Receive(p, req) ==
    /\ conn[p].pc = "none"
    /\ conn' = [conn EXCEPT ![p] =
                    [NoRequest EXCEPT !.pc = "received", !.ctl = req.ctl,
                                      !.op = req.op, !.id = req.id,
                                      !.effdt = req.effdt, !.content = req.content,
                                      !.patch = req.patch]]
    /\ UNCHANGED <<storage, now, last, jsonpatch>>

\* patch_json and delete_json up to their put_item
HandlerRead(p) ==
    LET t == conn[p]
        end(status, exception) ==
            conn' = [conn EXCEPT ![p] =
                        [t EXCEPT !.pc = "done", !.status = status, !.raised = exception]]
    IN  /\ t.pc = "received"
        /\ t.op \in {"patch_json", "delete_json"}
        /\ ~ running(conn, p)
        /\ IF t.op = "patch_json" /\ ~ jsonpatch
           THEN end(501, "NotImplementedException")
           ELSE \E e \in stamp(t) : \E item \in fetch_item(storage, t.id, e) :
                 IF not_found(item)
                 THEN end(404, "NotFoundException")
                 ELSE IF t.op = "patch_json" /\ ~ apply_patch(item, t.patch).ok
                 THEN end(500, "JsonPatchException")
                 ELSE conn' = [conn EXCEPT ![p] =
                                [t EXCEPT !.pc = "read", !.at = e, !.item = item]]
        /\ UNCHANGED <<storage, now, last, jsonpatch>>

\* the put_item of patch_json and delete_json, and the return
HandlerWrite(p) ==
    LET t == conn[p]
        content == IF t.op = "patch_json" THEN item_new(t.item, t.patch) ELSE None
    IN  /\ t.pc = "read"
        /\ \E e \in IF t.ctl = "storage" THEN {e \in utcnow : DtLeq(t.at, e)} ELSE {t.at} :
            IF idx_storage(storage, t.id, datetime_todb(e))
            THEN /\ conn' = [conn EXCEPT ![p] =
                                [t EXCEPT !.pc = "done", !.wrote_at = e, !.status = 500,
                                          !.raised = "IntegrityError"]]
                 /\ UNCHANGED storage
            ELSE /\ Cardinality(storage) < MaxRows
                 /\ storage' = sql_insert_item(storage,
                                    put_row(content, t.id, datetime_todb(e)))
                 /\ conn' = [conn EXCEPT ![p] =
                                [t EXCEPT !.pc = "done", !.wrote_at = e,
                                          !.before = storage,
                                          !.status = IF t.op = "patch_json"
                                                     THEN 200 ELSE 204]]
        /\ UNCHANGED <<now, last, jsonpatch>>

\* put_json
HandlerPut(p) ==
    LET t == conn[p]
    IN  /\ t.pc = "received"
        /\ t.op = "put_json"
        /\ ~ running(conn, p)
        /\ \E e \in stamp(t) :
            IF idx_storage(storage, t.id, datetime_todb(e))
            THEN /\ conn' = [conn EXCEPT ![p] =
                                [t EXCEPT !.pc = "done", !.wrote_at = e, !.status = 500,
                                          !.raised = "IntegrityError"]]
                 /\ UNCHANGED storage
            ELSE /\ Cardinality(storage) < MaxRows
                 /\ storage' = sql_insert_item(storage,
                                    put_row(t.content, t.id, datetime_todb(e)))
                 /\ conn' = [conn EXCEPT ![p] =
                                [t EXCEPT !.pc = "done", !.wrote_at = e,
                                          !.before = storage, !.status = 200]]
        /\ UNCHANGED <<now, last, jsonpatch>>

NextLoop ==
    \/ Tick
    \/ \E p \in Callers, req \in LoopRequests : Receive(p, req)
    \/ \E p \in Callers : HandlerRead(p)
    \/ \E p \in Callers : HandlerWrite(p)
    \/ \E p \in Callers : HandlerPut(p)

SpecLoop == InitLoop /\ [][NextLoop]_vars

(***************************************************************************)
(* Vocabulary of the properties.                                           *)
(***************************************************************************)
\* the instant a version takes effect
EffectiveAt(v) == [s |-> v.effdt, us |-> 0]

VersionsOf(rows, n) == {v \in rows : v.name = n}

\* the versions of n with the greatest effective_at <= t (one, or none)
Current(rows, n, t) ==
    LET cand == {v \in VersionsOf(rows, n) : DtLeq(EffectiveAt(v), t)}
    IN  {v \in cand : \A w \in cand : DtLeq(EffectiveAt(w), EffectiveAt(v))}

\* the value a caller stored in an Active version
Stored(v) ==
    IF \E c \in Contents \ {None} : dumps(c) = v.content
    THEN CHOOSE c \in Contents \ {None} : dumps(c) = v.content
    ELSE [type |-> "undecodable", val |-> v.content]

\* what point-in-time resolution of n at t yields: a content, or None (absent)
Resolution(rows, n, t) ==
    IF \E v \in Current(rows, n, t) : v.status = "A"
    THEN Stored(CHOOSE v \in Current(rows, n, t) : v.status = "A")
    ELSE None

\* a step that is a call of put_item, of cleanup, of a read
PutStep == last = Idle /\ last'.op = "put_item"
CleanupStep == last = Idle /\ last'.op = "cleanup"
ReadStep == last = Idle /\ last'.op \in {"get_item", "get_list", "get_list_hist"}

\* the record a put of last.content under (last.id, last.at) is to add
PutRecord(call) ==
    [name |-> call.id, effdt |-> call.at.s,
     status |-> IF call.content = None THEN "I" ELSE "A",
     content |-> IF call.content = None THEN "" ELSE dumps(call.content)]

(***************************************************************************)
(* C1..C5                                                                  *)
(***************************************************************************)
\* C1: get_item(name, as_of) returns the content of the version of name with
\* the greatest effective_at <= as_of when that version is Active, and absent
\* when there is no such version or it is Inactive.
C1_PointInTime ==
    last.op = "get_item" => last.result = Resolution(storage, last.id, last.at)

\* get_item, asked inside the second of a delete that follows an Active
\* version, answered absent
C1_Witness ==
    /\ last.op = "get_item"
    /\ last.result = None
    /\ last.at.us # 0
    /\ \E v, w \in storage :
        /\ v.name = last.id /\ w.name = last.id
        /\ w.status = "A" /\ v.status = "I"
        /\ w.effdt < v.effdt /\ v.effdt = last.at.s

\* C2: a successful put_item adds exactly one record (name, effective_at) and
\* changes no other; non-null content gives Active with the serialized
\* content, null gives Inactive with empty content; so every Inactive version
\* has empty content and every Active one non-empty serialized content.
C2_PutAddsOneVersion ==
    /\ [][(PutStep /\ last'.result = "ok") =>
            /\ PutRecord(last') \notin storage
            /\ storage' = storage \cup {PutRecord(last')}]_vars
    /\ [](\A v \in storage :
            /\ v.status \in {"A", "I"}
            /\ v.status = "I" => v.content = ""
            /\ v.status = "A" =>
                /\ v.content # ""
                /\ \E c \in Contents \ {None} : v.content = dumps(c))

\* a put of the empty string was stored Active, beside an Inactive version
C2_Witness ==
    /\ last.op = "put_item" /\ last.result = "ok"
    /\ last.content = PyStr("")
    /\ [name |-> last.id, effdt |-> last.at.s, status |-> "A",
        content |-> "\"\""] \in storage
    /\ \E v \in storage : v.status = "I" /\ v.content = ""

\* C3: a put_item whose (name, effective_at) exists fails with the write
\* conflict reported to the caller, and the store is exactly as before.
C3_WriteConflict ==
    [][(PutStep /\ \E v \in storage :
                        v.name = last'.id /\ v.effdt = last'.at.s) =>
            /\ last'.result = "IntegrityError"
            /\ storage' = storage]_vars

\* a put of other content on an existing Active version was rejected
C3_Witness ==
    /\ last.op = "put_item" /\ last.result = "IntegrityError"
    /\ \E v \in storage :
        /\ v.name = last.id /\ v.effdt = last.at.s
        /\ v.status = "A"
        /\ v # PutRecord(last)

\* C4: no two records share (name, effective_at), effective_at being the
\* put's timestamp truncated to whole seconds: a put succeeds exactly when
\* its name has no record in the second of its timestamp, and then adds the
\* record of that second.
C4_UniquePerSecond ==
    /\ [][PutStep =>
            /\ last'.result = "ok" <=>
                    ~ \E v \in storage :
                        v.name = last'.id /\ EffectiveAt(v).s = last'.at.s
            /\ last'.result = "ok" =>
                    \E v \in storage' \ storage :
                        v.name = last'.id /\ EffectiveAt(v).s = last'.at.s]_vars
    /\ [](\A v, w \in storage :
            (v.name = w.name /\ v.effdt = w.effdt) => v = w)

\* a put inside a second that its name already holds was rejected, while the
\* other name holds a record of that same second
C4_Witness ==
    /\ last.op = "put_item" /\ last.result = "IntegrityError"
    /\ last.at.us # 0
    /\ \E v, w \in storage :
        /\ v.name = last.id /\ v.effdt = last.at.s
        /\ w.name # last.id /\ w.effdt = last.at.s

\* C5: a record that exists before and after a step is unchanged; records
\* are added only by put_item and removed only by cleanup; get_item,
\* get_list and get_list_hist leave the store unchanged.
C5_Immutable ==
    [][/\ \A v \in storage, w \in storage' :
            (v.name = w.name /\ v.effdt = w.effdt) => v = w
       /\ storage' \ storage # {} => PutStep
       /\ storage \ storage' # {} => CleanupStep
       /\ ReadStep => storage' = storage]_vars

\* a cleanup removed records and left others in place
C5_Witness ==
    /\ last.op = "cleanup"
    /\ last.gone # {}
    /\ \E v \in storage : v.effdt < last.at.s - Retention

(***************************************************************************)
(* C6..C10                                                                 *)
(***************************************************************************)
\* the versions of n directly before second e (one, or none)
Preceding(rows, n, e) ==
    LET cand == {v \in VersionsOf(rows, n) : v.effdt < e}
    IN  {v \in cand : \A w \in cand : w.effdt <= v.effdt}

\* some version of n takes effect after second e and at or before t
LaterVersion(rows, n, e, t) ==
    \E w \in VersionsOf(rows, n) : w.effdt > e /\ DtLeq(EffectiveAt(w), t)

\* the state a successful put_item(None, name, t2) leaves
SoftDeleted == last.op = "put_item" /\ last.result = "ok" /\ last.content = None

\* C6 as stated: after put_item(name, V, t1) and then put_item(name, null,
\* t2), t1 < t2 and no version of name in between, get_item(name, t) is absent
\* for all t >= t2 and is V for t1 <= t < t2.
C6_Original ==
    SoftDeleted =>
        \A v1 \in Preceding(storage, last.id, last.at.s) :
            v1.status = "A" =>
                \A t \in DateTimes :
                    /\ DtLeq(EffectiveAt(PutRecord(last)), t) =>
                            fetch_item(storage, last.id, t) = {None}
                    /\ (DtLeq(EffectiveAt(v1), t)
                            /\ DtLess(t, EffectiveAt(PutRecord(last)))) =>
                            fetch_item(storage, last.id, t) = {Stored(v1)}

\* C6, amended: ... get_item(name, t) is absent for all t >= t2 that precede
\* the next later version of name (for all t >= t2 when name has no later
\* version), and is V for t1 <= t < t2.
C6_SoftDelete ==
    SoftDeleted =>
        \A v1 \in Preceding(storage, last.id, last.at.s) :
            v1.status = "A" =>
                \A t \in DateTimes :
                    /\ (DtLeq(EffectiveAt(PutRecord(last)), t)
                            /\ ~ LaterVersion(storage, last.id, last.at.s, t)) =>
                            fetch_item(storage, last.id, t) = {None}
                    /\ (DtLeq(EffectiveAt(v1), t)
                            /\ DtLess(t, EffectiveAt(PutRecord(last)))) =>
                            fetch_item(storage, last.id, t) = {Stored(v1)}

\* a delete was put between an Active version and a later version, with a
\* second in between in which the item reads absent
C6_Witness ==
    /\ SoftDeleted
    /\ \E v1 \in Preceding(storage, last.id, last.at.s) : v1.status = "A"
    /\ \E w \in VersionsOf(storage, last.id) : w.effdt > last.at.s
    /\ last.at.us # 0

\* C7: when an item reads soft-deleted (since t2) at t3 > t2, a put_item(name,
\* V2, t3) with non-null V2 succeeds; afterwards get_item(name, t) is V2 for
\* every t >= t3 before the next later version, and absent for t2 <= t < t3.
C7_Reactivation ==
    [][(PutStep /\ last'.content # None) =>
        \A v2 \in Current(storage, last'.id, last'.at) :
            (v2.status = "I" /\ v2.effdt < last'.at.s) =>
                /\ last'.result = "ok"
                /\ \A t \in DateTimes :
                    /\ (DtLeq(EffectiveAt(PutRecord(last')), t)
                            /\ ~ LaterVersion(storage', last'.id, last'.at.s, t)) =>
                            fetch_item(storage', last'.id, t) = {last'.content}
                    /\ (DtLeq(EffectiveAt(v2), t)
                            /\ DtLess(t, EffectiveAt(PutRecord(last')))) =>
                            fetch_item(storage', last'.id, t) = {None}]_vars

\* an item went Active, Inactive and Active again, with new content
C7_Witness ==
    /\ last.op = "put_item" /\ last.result = "ok" /\ last.content # None
    /\ \E v2 \in Preceding(storage, last.id, last.at.s) :
        /\ v2.status = "I"
        /\ \E v1 \in Preceding(storage, last.id, v2.effdt) :
            v1.status = "A" /\ Stored(v1) # last.content

\* C8: get_list (which resolves at the current time) returns exactly the names
\* whose resolved version is Active, each once, ascending by name; that is,
\* the names for which get_item at that time is not absent.
C8_GetList ==
    (last.op = "get_list" /\ last.like = NonePattern /\ last.glob = NonePattern) =>
        /\ \A i \in 1..Len(last.result) : last.result[i] \in Names
        /\ \A n \in Names :
            /\ (\E i \in 1..Len(last.result) : last.result[i] = n) <=>
                    (\E v \in Current(storage, n, last.at) : v.status = "A")
            /\ (\E i \in 1..Len(last.result) : last.result[i] = n) <=>
                    fetch_item(storage, n, last.at) # {None}
        /\ \A i, j \in 1..Len(last.result) :
                i < j => NameLess(last.result[i], last.result[j])

\* get_list named one item and left out one that has only a future-dated,
\* Active version
C8_Witness ==
    /\ last.op = "get_list" /\ last.like = NonePattern /\ last.glob = NonePattern
    /\ Len(last.result) = 1
    /\ \E n \in Names :
        /\ n # last.result[1]
        /\ VersionsOf(storage, n) # {}
        /\ \A v \in VersionsOf(storage, n) :
                v.status = "A" /\ v.effdt > last.at.s

\* C9: get_list_hist returns one entry (name, effective_at, status) for every
\* record in the store, none missing or twice, by name and then effective_at.
C9_GetListHist ==
    (last.op = "get_list_hist" /\ last.like = NonePattern
        /\ last.glob = NonePattern) =>
        /\ Len(last.result) = Cardinality(storage)
        /\ \A v \in storage : \E i \in 1..Len(last.result) :
                last.result[i] = [name |-> v.name, effdt |-> EffectiveAt(v),
                                  status |-> v.status]
        /\ \A i, j \in 1..Len(last.result) :
                i < j =>
                    \/ NameLess(last.result[i].name, last.result[j].name)
                    \/ /\ last.result[i].name = last.result[j].name
                       /\ DtLess(last.result[i].effdt, last.result[j].effdt)

\* the history listed both names, an Inactive and a future-dated version
C9_Witness ==
    /\ last.op = "get_list_hist" /\ last.like = NonePattern
    /\ last.glob = NonePattern
    /\ Len(last.result) = 3
    /\ \E i, j \in 1..3 : last.result[i].name # last.result[j].name
    /\ \E i \in 1..3 : last.result[i].status = "I"
    /\ \E i \in 1..3 : last.result[i].effdt.s > now

\* a version is older than the retention horizon of a cleanup run at clock
Expired(v, clock) ==
    DtLess(EffectiveAt(v), [s |-> clock - Retention, us |-> 0])

\* a later version of the same name exists
Superseded(rows, v) ==
    \E w \in VersionsOf(rows, v.name) : DtLess(EffectiveAt(v), EffectiveAt(w))

\* C10: cleanup at time now removes exactly the records that are strictly
\* older than now minus one year and are Inactive or superseded; every other
\* record, one exactly at the horizon included, stays as it is.
C10_CleanupRule ==
    [][CleanupStep =>
        /\ \A v \in storage :
            v \in storage' <=>
                ~ (Expired(v, now) /\ (v.status = "I" \/ Superseded(storage, v)))
        /\ storage' \subseteq storage]_vars

\* a cleanup removed a record and kept an Inactive one exactly at the horizon
C10_Witness ==
    /\ last.op = "cleanup"
    /\ last.gone # {}
    /\ \E v \in storage :
        v.effdt = last.at.s - Retention /\ v.status = "I"

(***************************************************************************)
(* C11..C13                                                                *)
(***************************************************************************)
\* the store a cleanup found, seen from the state the cleanup leaves
BeforeCleanup == storage \cup last.gone

\* v is the newest version of its name
Newest(rows, v) == \A w \in VersionsOf(rows, v.name) : w.effdt <= v.effdt

\* C11: cleanup never deletes the newest version of an item unless it is
\* Inactive: a newest version that is Active before cleanup exists after it,
\* however old it is.
C11_NewestActiveKept ==
    last.op = "cleanup" =>
        \A v \in BeforeCleanup :
            (Newest(BeforeCleanup, v) /\ v.status = "A") => v \in storage

\* a cleanup removed records and kept an item's only version, Active and
\* older than the horizon
C11_Witness ==
    /\ last.op = "cleanup"
    /\ last.gone # {}
    /\ \E v \in storage :
        /\ VersionsOf(BeforeCleanup, v.name) = {v}
        /\ v.status = "A"
        /\ v.effdt < last.at.s - Retention

\* C12: for every item that had an Active version before cleanup,
\* get_item(name, now) returns the same right after cleanup as right before.
C12_Currency ==
    last.op = "cleanup" =>
        \A n \in Names :
            (\E v \in VersionsOf(BeforeCleanup, n) : v.status = "A") =>
                fetch_item(storage, n, last.at) = fetch_item(BeforeCleanup, n, last.at)

\* C13: a second cleanup, run with no write since the first (and at the same
\* clock reading), removes no record.
C13_Idempotent ==
    last.op = "cleanup" => sql_cleanup(storage, last.at.s) = storage

\* a cleanup removed records and left records, expired ones among them
C13_Witness ==
    /\ last.op = "cleanup"
    /\ last.gone # {}
    /\ \E v \in storage : v.effdt < last.at.s - Retention

(***************************************************************************)
(* C14, C15: concurrent callers                                            *)
(***************************************************************************)
\* the rows a cleanup in progress is to delete
Doomed(t) ==
    IF t.pc = "executed" THEN t.dels ELSE storage \ sql_cleanup(storage, now)

\* C14: a cleanup's deletions reach the database in one step: every step
\* either removes no row, or is the step that commits a cleanup and removes
\* all the rows cleanup selects; a cleanup that fails removes nothing.
C14_CleanupAtomic ==
    [][/\ \/ storage \subseteq storage'
          \/ \E p \in Callers :
                /\ conn[p].op = "cleanup"
                /\ conn[p].pc # "done"
                /\ conn'[p].result = "ok"
                /\ Doomed(conn[p]) = storage \ sql_cleanup(storage, now)
                /\ storage' = storage \ Doomed(conn[p])
       /\ \A p \in Callers :
            (/\ conn[p].op = "cleanup"
             /\ conn[p].pc # "done"
             /\ conn'[p].result = "OperationalError")
                => storage' = storage
      ]_vars

\* a cleanup that is to delete two rows has executed and not yet committed,
\* while the other caller has read an item
C14_Witness ==
    \E p, q \in Callers :
        /\ conn[p].op = "cleanup"
        /\ conn[p].pc = "executed"
        /\ Cardinality(conn[p].dels) >= 2
        /\ conn[p].dels \subseteq storage
        /\ conn[q].op = "get_item"
        /\ conn[q].pc = "done"

\* the put ran to its end without a storage failure
Ended(t) == t.op = "put_item" /\ t.pc = "done" /\ t.result \in {"ok", "IntegrityError"}

\* the row the put is to add
ConcRow(t) == put_row(t.content, t.id, datetime_todb(t.at))

\* C15: two puts that run concurrently (both connected to the same
\* database, in which neither's pair exists) for the same (name,
\* effective_at): exactly one succeeds, the other gets the write conflict,
\* and the store has one record for the pair, the winner's; for different
\* pairs both succeed and the store holds both records, whatever the order.
C15_ConcurrentWriters ==
    \A p, q \in Callers :
        (/\ p # q
         /\ Ended(conn[p]) /\ Ended(conn[q])
         /\ conn[p].pre = conn[q].pre
         /\ ~ idx_storage(conn[p].pre, conn[p].id, datetime_todb(conn[p].at))
         /\ ~ idx_storage(conn[q].pre, conn[q].id, datetime_todb(conn[q].at)))
        => IF conn[p].id = conn[q].id
              /\ datetime_todb(conn[p].at) = datetime_todb(conn[q].at)
           THEN /\ (conn[p].result = "ok") # (conn[q].result = "ok")
                /\ LET w == IF conn[p].result = "ok" THEN conn[p] ELSE conn[q]
                   IN  storage = conn[p].pre \cup {ConcRow(w)}
           ELSE /\ conn[p].result = "ok"
                /\ conn[q].result = "ok"
                /\ storage = conn[p].pre \cup {ConcRow(conn[p]), ConcRow(conn[q])}

\* two concurrent puts of different contents for one pair have ended
C15_Witness ==
    /\ Ended(conn[1]) /\ Ended(conn[2])
    /\ conn[1].pre = conn[2].pre
    /\ conn[1].id = conn[2].id
    /\ conn[1].at = conn[2].at
    /\ conn[1].content # conn[2].content
    /\ conn[1].result = "IntegrityError"
    /\ conn[2].result = "ok"
    /\ ~ idx_storage(conn[1].pre, conn[1].id, datetime_todb(conn[1].at))

(***************************************************************************)
(* C16..C20: the controllers                                               *)
(***************************************************************************)
\* last is the response of a request to the handler op of a controller
Handled(op) == last.ctl # "" /\ last.op = op

\* the timestamps the handler handed to the store
Timestamps == {last.at, last.wrote_at} \ {NoneDate}

\* C16: when the caller supplies no timestamp, the endpoints use the time of
\* the call: every timestamp the handler hands to the store lies between the
\* request's arrival and its response; hence a timestamp-less put to an id
\* with no version in the call's second or later does not conflict.
C16_DefaultNow ==
    (last.ctl # "" /\ last.effdt = NoneDate) =>
        /\ \A e \in Timestamps : last.called <= e.s /\ e.s <= now
        /\ (/\ last.op = "put_json"
            /\ \A v \in VersionsOf(last.pre, last.id) : v.effdt < last.called)
                => last.raised # "IntegrityError"

\* the names a list response names, and the names that qualify for it
ListedNames ==
    IF last.ctl = "storage"
    THEN {last.body[i] : i \in 1..Len(last.body)}
    ELSE {last.body[i].name : i \in 1..Len(last.body)}

Qualifies(n) ==
    IF last.ctl = "storage"
    THEN fetch_item(last.pre, n, last.at) # {None}
    ELSE VersionsOf(last.pre, n) # {}

\* C17: a list endpoint's response names exactly the qualifying names that
\* match the filter supplied (all qualifying names when none is supplied).
C17_ListFilter ==
    Handled("get_list") =>
        ListedNames = {n \in Names : Qualifies(n) /\ criteria(n, last.like, last.glob)}

\* C18: a name never written is absent at every timestamp; a get endpoint
\* reports NotFound exactly when the item resolves to absent at the
\* handler's timestamp, and otherwise returns the resolved Active content.
C18_NotFound ==
    /\ \A n \in Names :
        VersionsOf(storage, n) = {} =>
            \A t \in DateTimes : fetch_item(storage, n, t) = {None}
    /\ Handled("get_json") =>
        LET r == Resolution(last.pre, last.id, last.at)
        IN  IF r = None
            THEN last.status = 404 /\ last.raised = "NotFoundException" /\ last.body = None
            ELSE last.status = 200 /\ last.raised = "" /\ last.body = r

\* a get endpoint returned the empty string stored in an Active version
C18_Witness ==
    /\ Handled("get_json")
    /\ last.status = 200
    /\ last.body = PyStr("")
    /\ \E n \in Names : VersionsOf(storage, n) = {}

\* the content a patch request read, and the row put_item is to add for it
PatchRead == Resolution(last.pre, last.id, last.at)

PatchRow ==
    put_row(apply_patch(PatchRead, last.patch).value, last.id,
            datetime_todb(last.wrote_at))

\* the first three outcomes of a patch request
PatchRefused ==
    IF ~ jsonpatch
    THEN last.status = 501 /\ last.calls = <<>> /\ storage = last.pre
    ELSE IF PatchRead = None
    THEN last.status = 404 /\ last.calls = <<"get_item">> /\ storage = last.pre
    ELSE (~ apply_patch(PatchRead, last.patch).ok) =>
            (last.status = 500 /\ last.calls = <<"get_item">> /\ storage = last.pre)

\* the patch request reached its put_item
PatchPuts == jsonpatch /\ PatchRead # None /\ apply_patch(PatchRead, last.patch).ok

\* C19 as stated: outcomes (1) to (3), and otherwise the request writes
\* exactly one new Active version whose content is the patched content.
C19_Original ==
    Handled("patch_json") =>
        /\ PatchRefused
        /\ PatchPuts =>
            /\ last.calls = <<"get_item", "put_item">>
            /\ PatchRow \notin last.pre
            /\ storage = last.pre \cup {PatchRow}
            /\ PatchRow.status = "A"
            /\ PatchRow.content = dumps(apply_patch(PatchRead, last.patch).value)

\* C19: outcomes (1) to (3), and otherwise the request calls put_item once,
\* with the patched content: rejected with a write conflict, writing nothing,
\* when a version exists at the second of the write timestamp; writing
\* exactly one new version otherwise, Active with the patched content, or
\* Inactive when the patched content is null.
C19_PatchOutcomes ==
    Handled("patch_json") =>
        /\ PatchRefused
        /\ PatchPuts =>
            /\ last.calls = <<"get_item", "put_item">>
            /\ IF idx_storage(last.pre, last.id, datetime_todb(last.wrote_at))
               THEN last.raised = "IntegrityError" /\ storage = last.pre
               ELSE /\ last.status = 200
                    /\ storage = last.pre \cup {PatchRow}
                    /\ last.body = apply_patch(PatchRead, last.patch).value
                    /\ IF apply_patch(PatchRead, last.patch).value = None
                       THEN PatchRow.status = "I"
                       ELSE /\ PatchRow.status = "A"
                            /\ loads(PatchRow.content)
                                    = apply_patch(PatchRead, last.patch).value

\* a patch replaced an item's content by another content, in a new version
C19_Witness ==
    /\ Handled("patch_json")
    /\ last.status = 200
    /\ PatchRead = PyStr("")
    /\ last.body = PyInt("7")
    /\ storage = last.pre \cup {PatchRow}
    /\ PatchRow \notin last.pre

\* the version before v among the versions of its name
Predecessors(rows, v) ==
    {w \in VersionsOf(rows, v.name) :
        /\ w.effdt < v.effdt
        /\ \A x \in VersionsOf(rows, v.name) : x.effdt < v.effdt => x.effdt <= w.effdt}

\* C20: by effective_at, an item's versions go Absent, Active, Inactive,
\* Active, ...: an Inactive version has a version before it, and that one is
\* Active; the delete endpoint writes an Inactive version only for an item
\* that resolves Active at its timestamp, and reports NotFound and writes
\* nothing otherwise.
C20_StateMachine ==
    /\ \A v \in storage :
        v.status = "I" =>
            \E w \in Predecessors(storage, v) : w.status = "A"
    /\ Handled("delete_json") =>
        IF Resolution(last.pre, last.id, last.at) = None
        THEN last.status = 404 /\ storage = last.pre
        ELSE \A v \in storage \ last.pre :
                v = put_row(None, last.id, datetime_todb(last.wrote_at))

(***************************************************************************)
(* C21..C24                                                                *)
(***************************************************************************)
\* the caller's operation ends in this step, with the result r
Ends(p, r) == conn[p].pc # "done" /\ conn'[p].pc = "done" /\ conn'[p].result = r

\* C21: every store operation runs in a transaction of its own, committed
\* only when the operation ends without an error: the database changes only
\* in the step in which an operation succeeds, and by that operation's
\* changes; an operation that raises changes nothing, holds no lock once it
\* has ended, and ends with the error as its result; a put_item whose pair
\* exists never ends well.
C21_TransactionScope ==
    /\ [][/\ storage' # storage =>
                \E p \in Callers :
                    /\ Ends(p, "ok")
                    /\ storage' = (storage \ conn'[p].dels) \cup conn'[p].ins
          /\ \A p \in Callers :
                (Ends(p, "IntegrityError") \/ Ends(p, "OperationalError"))
                    => (storage' = storage /\ conn'[p].item = None)
          /\ \A p \in Callers :
                (/\ conn[p].op = "put_item"
                 /\ conn[p].pc = "open"
                 /\ conn'[p].pc # "open"
                 /\ idx_storage(storage, conn[p].id, datetime_todb(conn[p].at)))
                    => conn'[p].pc = "raised" \/ Ends(p, "OperationalError")
         ]_vars
    /\ [](\A p, q \in Callers :
            (p # q /\ conn[p].pc = "done") => ~ busy([conn EXCEPT ![q] = Closed], q))

\* a put whose insert was pending ended with an error, while the other
\* caller's put hit the unique index; the pending row is not in the store
C21_Witness ==
    \E p, q \in Callers :
        /\ conn[p].op = "put_item"
        /\ conn[p].pc = "done"
        /\ conn[p].result = "OperationalError"
        /\ conn[p].ins # {}
        /\ conn[p].ins \cap storage = {}
        /\ conn[q].op = "put_item"
        /\ conn[q].result = "IntegrityError"

\* the item's latest version before the cleanup was Inactive and expired
Dead(n) ==
    \E v \in VersionsOf(BeforeCleanup, n) :
        /\ Newest(BeforeCleanup, v)
        /\ v.status = "I"
        /\ v.effdt < last.at.s - Retention

\* C22: when an item's latest version is Inactive and older than the
\* horizon, no record of the item is left after cleanup: get_list_hist has no
\* entry for the name and get_item is absent at every timestamp.
C22_PurgeDead ==
    last.op = "cleanup" =>
        \A n \in Names :
            Dead(n) =>
                /\ VersionsOf(storage, n) = {}
                /\ LET hist == sql_get_list_hist(storage, NonePattern, NonePattern)
                   IN  \A i \in 1..Len(hist) : hist[i].name # n
                /\ \A t \in DateTimes : fetch_item(storage, n, t) = {None}

\* a cleanup purged an item of two versions, an Active one and the Inactive
\* one after it
C22_Witness ==
    /\ last.op = "cleanup"
    /\ \E n \in Names :
        /\ Dead(n)
        /\ \E v, w \in VersionsOf(BeforeCleanup, n) :
                v.status = "A" /\ w.status = "I" /\ v.effdt < w.effdt
        /\ VersionsOf(storage, n) = {}

\* t lies in the interval the put's version governs: from its effective_at
\* (the second of the put's timestamp) to the next later version of the name
Governed(rows, call, t) ==
    /\ call.at.s <= t.s
    /\ \A w \in VersionsOf(rows, call.id) : w.effdt > call.at.s => t.s < w.effdt

\* the names get_list's select gives for the date d
Listed(rows, d) ==
    LET l == sql_get_list(rows, d, NonePattern, NonePattern)
    IN  {l[i] : i \in 1..Len(l)}

\* C23: a successful put_item(content, name, e) changes get_item(n, t) only
\* for n = name and e <= t < e', e' being the effective_at of the next later
\* version of name; get_list at t changes at most in the membership of name,
\* and only for such t.
C23_PutFrame ==
    [][(PutStep /\ last'.result = "ok") =>
        \A t \in DateTimes :
            /\ \A n \in Names :
                fetch_item(storage', n, t) # fetch_item(storage, n, t)
                    => (n = last'.id /\ Governed(storage, last', t))
            /\ Listed(storage', t.s) # Listed(storage, t.s)
                    => Governed(storage, last', t)
            /\ \A n \in Names \ {last'.id} :
                n \in Listed(storage', t.s) <=> n \in Listed(storage, t.s)
      ]_vars

\* a back-dated put went between two versions of its name
C23_Witness ==
    /\ last.op = "put_item" /\ last.result = "ok"
    /\ \E u, w \in VersionsOf(storage, last.id) :
            u.effdt < last.at.s /\ last.at.s < w.effdt

\* C24: whatever the order in which concurrent patch, put and delete
\* requests on an id are served, a successful patch wrote the patch applied to
\* the content get_item resolves for the id right before the patch's write:
\* the item the handler read is still the one resolved, at the timestamp it
\* read at, from the rows its write found.
C24_NoLostUpdate ==
    \A p \in Callers :
        (conn[p].op = "patch_json" /\ conn[p].pc = "done" /\ conn[p].status = 200) =>
            LET t == conn[p]
                current == Resolution(t.before, t.id, t.at)
            IN  /\ t.item = current
                /\ put_row(apply_patch(current, t.patch).value, t.id,
                           datetime_todb(t.wrote_at)) \in storage \ t.before

\* a patch and a put on the same id, in flight together, both succeeded, and
\* the patch read what the put had written
C24_Witness ==
    \E p, q \in Callers :
        /\ conn[p].op = "patch_json" /\ conn[p].status = 200
        /\ conn[q].op = "put_json" /\ conn[q].status = 200
        /\ conn[q].id = conn[p].id
        /\ conn[q].before = conn[p].before \ {v \in storage : v.effdt = conn[q].wrote_at.s}
        /\ conn[q].before # conn[p].before
        /\ conn[p].item = conn[q].content

====
